---- MODULE Spec2Model ----
(***************************************************************************)
(* A model of the tagz.lol API (src/main.py): signup, login, the bearer     *)
(* token resolver and the profile read and update handlers, run by          *)
(* concurrent requests against one relational store.                        *)
(*                                                                          *)
(* Every request is a small process (req[r]).  Each of its steps is one     *)
(* SQL statement or one commit of its handler, so that statements of        *)
(* different requests interleave as they do on the database.  A SELECT      *)
(* outside a write transaction reads the latest committed rows: pysqlite    *)
(* emits BEGIN only before DML, and a READ COMMITTED engine snapshots per   *)
(* statement.                                                               *)
(***************************************************************************)
EXTENDS Integers, Sequences, FiniteSets

VARIABLES
    backend,     \* the engine DATABASE_URL selects: "sqlite" or "mvcc"
    now,         \* datetime.utcnow(), in minutes
    users,       \* committed rows of table users
    links,       \* committed rows of table links
    nextLinkId,  \* next primary key of table links
    wlock,       \* sqlite: the request holding the database write lock, or 0
    req          \* the in-flight requests

vars == <<backend, now, users, links, nextLinkId, wlock, req>>

-----------------------------------------------------------------------------
(* Bounds *)

MaxTicks == 2       \* clock steps taken on either side of a token lifetime
MaxLinkId == 3      \* link rows ever inserted
MaxLinks == 2       \* links in one update payload

(* Two requests are in flight at a time: each race of the handlers is *)
(* between two transactions, or between a reader and a writer        *)
Reqs == {1, 2}

-----------------------------------------------------------------------------
(* Config *)

SECRET_KEY == "change-me-in-prod"
ACCESS_TOKEN_MINUTES == 60 * 24 * 14
Backends == {"sqlite", "mvcc"}

-----------------------------------------------------------------------------
(* Strings that are case-normalised are sequences of characters. *)

LowerChar(c) ==
    CASE c = "A" -> "a"
      [] c = "B" -> "b"
      [] c = "O" -> "o"
      [] c = "X" -> "x"
      [] OTHER -> c

Lower(s) == [i \in DOMAIN s |-> LowerChar(s[i])]

(* Optional[...] values of the ORM and of the pydantic models. *)
None == [some |-> FALSE, v |-> ""]
Some(x) == [some |-> TRUE, v |-> x]

(* A JSON member of a request body: absent, null, or a value. *)
JAbsent(d) == [kind |-> "absent", v |-> d]
JNull(d) == [kind |-> "null", v |-> d]
JVal(x) == [kind |-> "value", v |-> x]

-----------------------------------------------------------------------------
(* Auth helpers *)

hash_pw(p, salt) == [scheme |-> "bcrypt", salt |-> salt, digest |-> <<salt, p>>]

verify_pw(p, hashed) == hashed.digest = <<hashed.salt, p>>

NoToken == [sub |-> <<>>, exp |-> -1, sig |-> ""]

jwt_encode(sub, exp, key) == [sub |-> sub, exp |-> exp, sig |-> key]

create_token(sub, t) == jwt_encode(sub, t + ACCESS_TOKEN_MINUTES, SECRET_KEY)

(* jwt.decode that does not look at exp *)
jwt_decode_ok_NoExpiry(token, key, t) == token.sig = key

(* jwt.decode: the signature is made with the server key and exp has not passed *)
jwt_decode_ok(token, key, t) == token.sig = key /\ ~(token.exp < t)

-----------------------------------------------------------------------------
(* Rows, ORM objects and response shapes *)

NoUser ==
    [id |-> 0, username |-> <<>>, email |-> <<>>,
     password_hash |-> hash_pw("", ""),
     bio |-> None, avatar_url |-> None, theme_hex |-> None]

(* class User: the column defaults fill what signup does not set *)
User(id, username, email, password_hash, bio, avatar_url) ==
    [id |-> id, username |-> username, email |-> email,
     password_hash |-> password_hash,
     bio |-> bio, avatar_url |-> avatar_url, theme_hex |-> Some("#00ff88")]

(* class Link *)
Link(id, user_id, title, url, icon, order_index) ==
    [id |-> id, user_id |-> user_id, title |-> title, url |-> url,
     icon |-> icon, order_index |-> order_index]

(* the users table without its unique indexes *)
UniqueViolation_NoIndex(rows, row) == FALSE

(* unique=True on users.username and users.email *)
UniqueViolation(rows, row) ==
    \E u \in rows : u.username = row.username \/ u.email = row.email

NextUserId(rows) ==
    IF rows = {} THEN 1
    ELSE 1 + (CHOOSE m \in {u.id : u \in rows} : \A u \in rows : u.id <= m)

LinksOf(rows, uid) == {l \in rows : l.user_id = uid}

Before(a, b) ==
    \/ a.order_index < b.order_index
    \/ a.order_index = b.order_index /\ a.id < b.id

(* sorted(u.links, key=lambda x: x.order_index); rows of equal key stay in *)
(* the order the relationship loaded them, which is the order of their ids *)
RECURSIVE SortedLinks(_)
SortedLinks(rows) ==
    IF rows = {} THEN <<>>
    ELSE LET first == CHOOSE a \in rows : \A b \in rows \ {a} : Before(a, b)
         IN  <<first>> \o SortedLinks(rows \ {first})

(* LinkOut.model_validate(l) *)
LinkOut(l) ==
    [id |-> l.id, title |-> l.title, url |-> l.url, icon |-> l.icon,
     order_index |-> l.order_index]

NoView ==
    [username |-> <<>>, bio |-> None, avatar_url |-> None, theme_hex |-> None,
     links |-> <<>>]

(* UserPublic(...) as me and public_profile build it *)
UserPublic(u, rows) ==
    LET sorted == SortedLinks(LinksOf(rows, u.id))
    IN  [username |-> u.username, bio |-> u.bio, avatar_url |-> u.avatar_url,
         theme_hex |-> u.theme_hex,
         links |-> [i \in DOMAIN sorted |-> LinkOut(sorted[i])]]

NoResp == [status |-> 0, detail |-> "", token |-> NoToken, view |-> NoView]

(* raise HTTPException(status, detail), or an unhandled exception (500) *)
HTTPException(status, detail) ==
    [status |-> status, detail |-> detail, token |-> NoToken, view |-> NoView]

TokenOut(token) ==
    [status |-> 200, detail |-> "", token |-> token, view |-> NoView]

ViewOut(view) ==
    [status |-> 200, detail |-> "", token |-> NoToken, view |-> view]

NoForm == [username |-> <<>>, email |-> <<>>, password |-> ""]

NoPayload ==
    [bio |-> None, avatar_url |-> None, theme_hex |-> None,
     links |-> [some |-> FALSE, v |-> <<>>]]

NoRaw ==
    [bio |-> JAbsent(""), avatar_url |-> JAbsent(""), theme_hex |-> JAbsent(""),
     links |-> JAbsent(<<>>)]

IdleReq ==
    [op |-> "none", pc |-> "idle", form |-> NoForm, token |-> NoToken,
     u |-> NoUser, raw |-> NoRaw, payload |-> NoPayload,
     target |-> {}, deleted |-> {}, resp |-> NoResp,
     at |-> 0, dup0 |-> FALSE, seen |-> {}]

-----------------------------------------------------------------------------
(* Initial state: create_all on an empty database, no request in flight *)

Init ==
    /\ backend \in Backends
    /\ now = 0
    /\ users = {}
    /\ links = {}
    /\ nextLinkId = 1
    /\ wlock = 0
    /\ req = [r \in Reqs |-> IdleReq]

Idle(r) == req[r].pc = "idle"

(* the handler returns or raises: the response is ready for the client *)
Finish(r, rec, resp) ==
    [req EXCEPT ![r] = [rec EXCEPT !.pc = "done", !.resp = resp]]

(* a reader in flight sees one more committed state of the profiles *)
Observe(rq, us, ls) ==
    [r \in Reqs |->
        IF rq[r].pc \in {"me_links", "pp_links"}
        THEN [rq[r] EXCEPT !.seen = @ \cup
                 {UserPublic(u, ls) : u \in {x \in us : x.id = rq[r].u.id}}]
        ELSE rq[r]]

(* sqlite admits one writer: the statement waits while another holds the lock *)
CanWrite(r) == backend = "sqlite" => wlock \in {0, r}

-----------------------------------------------------------------------------
(* POST /api/signup *)

(* the username lookup without .lower() *)
UsernameTaken_CaseSensitive(username) == \E u \in users : u.username = username

(* db.query(User).filter(User.username == data.username.lower()).first() *)
UsernameTaken(username) == \E u \in users : u.username = Lower(username)

(* db.query(User).filter(User.email == data.email.lower()).first() *)
EmailRegistered(email) == \E u \in users : u.email = Lower(email)

(* the username lookup *)
SignupStart(r, data) ==
    /\ Idle(r)
    /\ LET rec == [IdleReq EXCEPT !.op = "signup", !.form = data,
                      !.dup0 = \E u \in users :
                                  \/ Lower(u.username) = Lower(data.username)
                                  \/ Lower(u.email) = Lower(data.email)]
       IN  IF UsernameTaken(data.username)
           THEN req' = Finish(r, rec, HTTPException(400, "Username already taken"))
           ELSE req' = [req EXCEPT ![r] = [rec EXCEPT !.pc = "su_email"]]
    /\ UNCHANGED <<backend, now, users, links, nextLinkId, wlock>>

(* the email lookup *)
SignupEmail(r) ==
    /\ req[r].pc = "su_email"
    /\ IF EmailRegistered(req[r].form.email)
       THEN req' = Finish(r, req[r], HTTPException(400, "Email already registered"))
       ELSE req' = [req EXCEPT ![r].pc = "su_commit"]
    /\ UNCHANGED <<backend, now, users, links, nextLinkId, wlock>>

(* User(...), db.add, db.commit, create_token *)
SignupCommit(r, salt) ==
    /\ req[r].pc = "su_commit"
    /\ CanWrite(r)
    /\ LET data == req[r].form
           user == User(NextUserId(users), Lower(data.username), Lower(data.email),
                        hash_pw(data.password, salt), Some(""), None)
       IN  IF UniqueViolation(users, user)
           THEN /\ req' = Finish(r, req[r], HTTPException(500, "IntegrityError"))
                /\ UNCHANGED users
           ELSE /\ users' = users \cup {user}
                /\ req' = Observe(Finish(r, req[r], TokenOut(create_token(user.username, now))),
                                  users', links)
    /\ UNCHANGED <<backend, now, links, nextLinkId, wlock>>

-----------------------------------------------------------------------------
(* POST /api/login *)

(* q.first() of a query without ORDER BY: any one of the matching rows *)
LoginMatches(ident) ==
    {u \in users : u.username = Lower(ident) \/ u.email = Lower(ident)}

(* q.first(): a matching row, or None *)
First(rows) == IF rows = {} THEN {NoUser} ELSE rows

(* a login that tells an unknown identifier from a wrong password *)
login_response_Reveals(user, password, t) ==
    IF user = NoUser THEN HTTPException(404, "User not found")
    ELSE IF ~verify_pw(password, user.password_hash)
         THEN HTTPException(401, "Invalid credentials")
         ELSE TokenOut(create_token(user.username, t))

(* what login answers once the row is fetched *)
login_response(user, password, t) ==
    IF user = NoUser \/ ~verify_pw(password, user.password_hash)
    THEN HTTPException(401, "Invalid credentials")
    ELSE TokenOut(create_token(user.username, t))

Login(r, ident, password) ==
    /\ Idle(r)
    /\ \E user \in First(LoginMatches(ident)) :
          req' = Finish(r, [IdleReq EXCEPT !.op = "login", !.u = user,
                               !.form = [username |-> ident, email |-> <<>>,
                                         password |-> password]],
                        login_response(user, password, now))
    /\ UNCHANGED <<backend, now, users, links, nextLinkId, wlock>>

-----------------------------------------------------------------------------
(* current_user: the dependency of every protected route *)

TokenUsers(token) == {u \in users : u.username = Lower(token.sub)}

(* the 401 current_user raises for this token, when it raises one *)
current_user_error(token) ==
    IF ~jwt_decode_ok(token, SECRET_KEY, now)
    THEN HTTPException(401, "Invalid token")
    ELSE HTTPException(401, "User not found")

current_user_fails(token) ==
    ~jwt_decode_ok(token, SECRET_KEY, now) \/ TokenUsers(token) = {}

(* GET /api/me: resolve the caller *)
MeStart(r, token) ==
    /\ Idle(r)
    /\ LET rec == [IdleReq EXCEPT !.op = "me", !.token = token, !.at = now]
       IN  IF current_user_fails(token)
           THEN req' = Finish(r, rec, current_user_error(token))
           ELSE \E user \in TokenUsers(token) :
                   req' = [req EXCEPT ![r] =
                              [rec EXCEPT !.pc = "me_links", !.u = user,
                                          !.seen = {UserPublic(user, links)}]]
    /\ UNCHANGED <<backend, now, users, links, nextLinkId, wlock>>

(* me(u): u.links is loaded by a second SELECT when it is first read *)
MeLinks(r) ==
    /\ req[r].pc = "me_links"
    /\ req' = Finish(r, req[r], ViewOut(UserPublic(req[r].u, links)))
    /\ UNCHANGED <<backend, now, users, links, nextLinkId, wlock>>

-----------------------------------------------------------------------------
(* GET /api/profile/{username} *)

ProfileStart(r, username) ==
    /\ Idle(r)
    /\ LET rec == [IdleReq EXCEPT !.op = "profile",
                      !.form = [username |-> username, email |-> <<>>,
                                password |-> ""]]
       IN  \E user \in First({u \in users : u.username = Lower(username)}) :
              IF user = NoUser
              THEN req' = Finish(r, rec, HTTPException(404, "User not found"))
              ELSE req' = [req EXCEPT ![r] =
                              [rec EXCEPT !.pc = "pp_links", !.u = user,
                                          !.seen = {UserPublic(user, links)}]]
    /\ UNCHANGED <<backend, now, users, links, nextLinkId, wlock>>

(* u.links is loaded by a second SELECT when UserPublic(...) reads it *)
ProfileLinks(r) ==
    /\ req[r].pc = "pp_links"
    /\ req' = Finish(r, req[r], ViewOut(UserPublic(req[r].u, links)))
    /\ UNCHANGED <<backend, now, users, links, nextLinkId, wlock>>

-----------------------------------------------------------------------------
(* PUT /api/me *)

(* an Optional[str] field of a pydantic model: absent and null both parse *)
(* to the default None                                                    *)
OptionalField(j) == IF j.kind = "value" THEN Some(j.v) ELSE None

(* class LinkIn *)
LinkIn(j) ==
    [title |-> j.title, url |-> j.url, icon |-> OptionalField(j.icon),
     order_index |-> IF j.order_index.kind = "value" THEN j.order_index.v ELSE 0]

(* class UpdateProfileIn *)
UpdateProfileIn(j) ==
    [bio |-> OptionalField(j.bio),
     avatar_url |-> OptionalField(j.avatar_url),
     theme_hex |-> OptionalField(j.theme_hex),
     links |-> IF j.links.kind = "value"
               THEN Some([i \in DOMAIN j.links.v |-> LinkIn(j.links.v[i])])
               ELSE [some |-> FALSE, v |-> <<>>]]

(* an order_index kept only when it is positive *)
OrderIndex_PositiveOnly(order_index, i) == IF order_index > 0 THEN order_index ELSE i

(* L.order_index if L.order_index else i *)
OrderIndex(order_index, i) == IF order_index # 0 THEN order_index ELSE i

(* the Link rows the loop adds; enumerate counts from 0 *)
NewLinks(ls, uid, base) ==
    {Link(base + i - 1, uid, ls[i].title, ls[i].url, ls[i].icon,
          OrderIndex(ls[i].order_index, i - 1)) : i \in DOMAIN ls}

(* the attribute writes of update_me: a field that is not None is set on u; *)
(* the flush writes it when it differs from the value u was loaded with     *)
Written(payload_field, loaded) == payload_field.some /\ payload_field # loaded

Flushed(row, u, payload) ==
    [row EXCEPT
        !.bio = IF Written(payload.bio, u.bio) THEN payload.bio ELSE @,
        !.avatar_url = IF Written(payload.avatar_url, u.avatar_url)
                       THEN payload.avatar_url ELSE @,
        !.theme_hex = IF Written(payload.theme_hex, u.theme_hex)
                      THEN payload.theme_hex ELSE @]

HasWrites(rec) ==
    \/ rec.payload.links.some
    \/ Written(rec.payload.bio, rec.u.bio)
    \/ Written(rec.payload.avatar_url, rec.u.avatar_url)
    \/ Written(rec.payload.theme_hex, rec.u.theme_hex)

(* link rows the updates in flight have yet to insert *)
PendingRows ==
    LET n(r) == IF req[r].pc \in {"up_delete", "up_rowlocks", "up_commit"}
                THEN Len(req[r].payload.links.v) ELSE 0
        RECURSIVE sum(_)
        sum(S) == IF S = {} THEN 0
                  ELSE LET r == CHOOSE x \in S : TRUE IN n(r) + sum(S \ {r})
    IN  sum(Reqs)

(* resolve the caller and take the body; a refused call never reads it *)
UpdateStart(r, token, raw) ==
    /\ Idle(r)
    /\ LET payload == UpdateProfileIn(raw)
           rec == [IdleReq EXCEPT !.op = "update", !.raw = raw, !.payload = payload]
       IN  /\ nextLinkId + PendingRows + Len(payload.links.v) <= MaxLinkId + 1
           /\ IF current_user_fails(token)
              THEN req' = Finish(r, [IdleReq EXCEPT !.op = "update"],
                                 current_user_error(token))
              ELSE \E user \in TokenUsers(token) :
                      req' = [req EXCEPT ![r] =
                                 [rec EXCEPT !.u = user,
                                     !.pc = IF payload.links.some
                                            THEN "up_delete" ELSE "up_commit"]]
    /\ UNCHANGED <<backend, now, users, links, nextLinkId, wlock>>

LinkIds(rows) == {l.id : l \in rows}

(* db.query(Link).filter(Link.user_id == u.id).delete(): the statement opens *)
(* the transaction.  sqlite takes the write lock and deletes; an MVCC engine *)
(* fixes the statement's snapshot and then locks the rows it found           *)
UpdateDelete(r) ==
    /\ req[r].pc = "up_delete"
    /\ LET found == LinkIds(LinksOf(links, req[r].u.id))
       IN  IF backend = "sqlite"
           THEN /\ wlock = 0
                /\ wlock' = r
                /\ req' = [req EXCEPT ![r].deleted = found, ![r].pc = "up_commit"]
           ELSE /\ req' = [req EXCEPT ![r].target = found, ![r].pc = "up_rowlocks"]
                /\ UNCHANGED wlock
    /\ UNCHANGED <<backend, now, users, links, nextLinkId>>

(* MVCC: wait for the transactions holding the rows; rows a committed *)
(* transaction has already removed are skipped                        *)
UpdateRowLocks(r) ==
    /\ req[r].pc = "up_rowlocks"
    /\ \A o \in Reqs \ {r} : req[o].deleted \cap req[r].target = {}
    /\ req' = [req EXCEPT ![r].deleted = req[r].target \cap LinkIds(links),
                          ![r].target = {},
                          ![r].pc = "up_commit"]
    /\ UNCHANGED <<backend, now, users, links, nextLinkId, wlock>>

(* db.commit(): flush the UPDATE of the user row and the INSERTs, commit; *)
(* the handler does not read the body again                              *)
UpdateCommit(r) ==
    /\ req[r].pc = "up_commit"
    /\ HasWrites(req[r]) => CanWrite(r)
    /\ LET rec == req[r]
           added == IF rec.payload.links.some
                    THEN NewLinks(rec.payload.links.v, rec.u.id, nextLinkId)
                    ELSE {}
       IN  /\ users' = {IF row.id = rec.u.id THEN Flushed(row, rec.u, rec.payload)
                        ELSE row : row \in users}
           /\ links' = {l \in links : l.id \notin rec.deleted} \cup added
           /\ nextLinkId' = nextLinkId + Cardinality(added)
           /\ wlock' = IF wlock = r THEN 0 ELSE wlock
           /\ req' = Observe([req EXCEPT ![r].deleted = {}, ![r].pc = "up_refresh",
                                         ![r].raw = NoRaw, ![r].payload = NoPayload],
                             users', links')
    /\ UNCHANGED <<backend, now>>

(* db.refresh(u) *)
UpdateRefresh(r) ==
    /\ req[r].pc = "up_refresh"
    /\ \E row \in {x \in users : x.id = req[r].u.id} :
          req' = [req EXCEPT ![r].u = row, ![r].pc = "up_links"]
    /\ UNCHANGED <<backend, now, users, links, nextLinkId, wlock>>

(* return me(u) *)
UpdateLinks(r) ==
    /\ req[r].pc = "up_links"
    /\ req' = Finish(r, req[r], ViewOut(UserPublic(req[r].u, links)))
    /\ UNCHANGED <<backend, now, users, links, nextLinkId, wlock>>

(* sqlite gives up waiting for the write lock: OperationalError, *)
(* "database is locked"; the request ends with a 500             *)
BusyTimeout(r) ==
    /\ backend = "sqlite"
    /\ wlock \notin {0, r}
    /\ \/ req[r].pc \in {"up_delete", "su_commit"}
       \/ req[r].pc = "up_commit" /\ HasWrites(req[r])
    /\ req' = Finish(r, req[r], HTTPException(500, "OperationalError"))
    /\ UNCHANGED <<backend, now, users, links, nextLinkId, wlock>>

-----------------------------------------------------------------------------
(* the client takes the response; the request's session is closed *)

Return(r) ==
    /\ req[r].pc = "done"
    /\ req' = [req EXCEPT ![r] = IdleReq]
    /\ UNCHANGED <<backend, now, users, links, nextLinkId, wlock>>

(* the instants the clock is sampled at: around the issue of a token and *)
(* around its expiry                                                     *)
Instants ==
    (0..MaxTicks) \cup (ACCESS_TOKEN_MINUTES..(ACCESS_TOKEN_MINUTES + MaxTicks))

(* the clock moves forward *)
Tick ==
    /\ \E t \in Instants : t > now /\ now' = t
    /\ UNCHANGED <<backend, users, links, nextLinkId, wlock, req>>

-----------------------------------------------------------------------------------------------------------------------------------------------------
(* Inputs *)

Bob == <<"b", "o", "b">>
BobUpper == <<"B", "O", "B">>
AxMail == <<"a", "@", "x">>
AxMailUpper == <<"A", "@", "X">>
BxMail == <<"b", "@", "x">>

Usernames == {Bob, BobUpper, AxMail}
Emails == {AxMail, AxMailUpper, BxMail}
Passwords == {"secret1", "hunter22"}
Salts == {"s1"}

SignupInputs == [username : Usernames, email : Emails, password : Passwords]

Identifiers == Usernames \cup Emails

(* Signup and login, raced *)
NextAccounts ==
    \/ \E r \in Reqs, data \in SignupInputs : SignupStart(r, data)
    \/ \E r \in Reqs : SignupEmail(r)
    \/ \E r \in Reqs, salt \in Salts : SignupCommit(r, salt)
    \/ \E r \in Reqs, ident \in Identifiers, password \in Passwords :
          Login(r, ident, password)
    \/ \E r \in Reqs : Return(r)

SpecAccounts == Init /\ [][NextAccounts]_vars

(* bearer tokens a client can present: made at some time for a subject by *)
(* a holder of some key                                                   *)
AuthTokens ==
    {jwt_encode(sub, t + ACCESS_TOKEN_MINUTES, key) :
        sub \in {Bob, BobUpper, BxMail}, t \in 0..MaxTicks,
        key \in {SECRET_KEY, "another-key"}}

TokenSignups == [username : {BobUpper}, email : {AxMailUpper}, password : {"secret1"}]

(* The token resolver under a moving clock *)
NextTokens ==
    \/ \E r \in Reqs, data \in TokenSignups : SignupStart(r, data)
    \/ \E r \in Reqs : SignupEmail(r)
    \/ \E r \in Reqs, salt \in Salts : SignupCommit(r, salt)
    \/ \E r \in Reqs, token \in AuthTokens : MeStart(r, token)
    \/ \E r \in Reqs : MeLinks(r)
    \/ \E r \in Reqs : Return(r)
    \/ Tick

SpecTokens == Init /\ [][NextTokens]_vars

-----------------------------------------------------------------------------
(* Inputs of the profile models *)

ProfileSignups ==
    {[username |-> BobUpper, email |-> AxMailUpper, password |-> "secret1"]}

ProfileTokens ==
    {create_token(Bob, 0), jwt_encode(Bob, ACCESS_TOKEN_MINUTES, "another-key")}

ProfileNames == {BobUpper}

RawLink(title, url, icon, order_index) ==
    [title |-> title, url |-> url, icon |-> icon, order_index |-> order_index]

LinkInputs ==
    {RawLink("Site", "https://a.com", JAbsent(""), JVal(0)),
     RawLink("Blog", "https://b.com", JVal("*"), JVal(3)),
     RawLink("Shop", "https://c.com", JNull(""), JVal(-1))}

RECURSIVE SeqsUpTo(_, _)
SeqsUpTo(S, n) ==
    IF n = 0 THEN {<<>>}
    ELSE LET shorter == SeqsUpTo(S, n - 1)
         IN  shorter \cup {Append(q, x) : q \in shorter, x \in S}

RawPayload(bio, avatar_url, theme_hex, ls) ==
    [bio |-> bio, avatar_url |-> avatar_url, theme_hex |-> theme_hex, links |-> ls]

(* bodies that replace the links *)
LinkPayloads ==
    {RawPayload(JAbsent(""), JAbsent(""), JAbsent(""), JVal(ls)) :
        ls \in SeqsUpTo(LinkInputs, MaxLinks)}

(* Concurrent replacements of the links of a profile *)
NextLinks ==
    \/ \E r \in Reqs, data \in ProfileSignups : SignupStart(r, data)
    \/ \E r \in Reqs : SignupEmail(r)
    \/ \E r \in Reqs, salt \in Salts : SignupCommit(r, salt)
    \/ \E r \in Reqs, token \in ProfileTokens, raw \in LinkPayloads :
          UpdateStart(r, token, raw)
    \/ \E r \in Reqs : UpdateDelete(r)
    \/ \E r \in Reqs : UpdateRowLocks(r)
    \/ \E r \in Reqs : UpdateCommit(r)
    \/ \E r \in Reqs : UpdateRefresh(r)
    \/ \E r \in Reqs : UpdateLinks(r)
    \/ \E r \in Reqs : BusyTimeout(r)
    \/ \E r \in Reqs : Return(r)

SpecLinks == Init /\ [][NextLinks]_vars

SiteLink == RawLink("Site", "https://a.com", JAbsent(""), JVal(0))

(* bodies that set, clear or leave out the profile fields, with or without *)
(* a replacement of the links                                              *)
FieldPayloads ==
    {RawPayload(JAbsent(""), JAbsent(""), JAbsent(""), JAbsent(<<>>)),
     RawPayload(JVal("hi"), JVal("pic"), JVal("#fff"), JAbsent(<<>>)),
     RawPayload(JVal(""), JAbsent(""), JAbsent(""), JAbsent(<<>>)),
     RawPayload(JNull(""), JNull(""), JAbsent(""), JAbsent(<<>>)),
     RawPayload(JAbsent(""), JAbsent(""), JNull(""), JNull(<<>>)),
     RawPayload(JVal("hi"), JAbsent(""), JAbsent(""), JVal(<<SiteLink>>)),
     RawPayload(JAbsent(""), JAbsent(""), JAbsent(""), JVal(<<SiteLink>>))}

(* Updates of the profile fields *)
NextFields ==
    \/ \E r \in Reqs, data \in ProfileSignups : SignupStart(r, data)
    \/ \E r \in Reqs : SignupEmail(r)
    \/ \E r \in Reqs, salt \in Salts : SignupCommit(r, salt)
    \/ \E r \in Reqs, token \in ProfileTokens, raw \in FieldPayloads :
          UpdateStart(r, token, raw)
    \/ \E r \in Reqs : UpdateDelete(r)
    \/ \E r \in Reqs : UpdateRowLocks(r)
    \/ \E r \in Reqs : UpdateCommit(r)
    \/ \E r \in Reqs : UpdateRefresh(r)
    \/ \E r \in Reqs : UpdateLinks(r)
    \/ \E r \in Reqs : BusyTimeout(r)
    \/ \E r \in Reqs : Return(r)

SpecFields == Init /\ [][NextFields]_vars

(* bodies that replace a bio and the links together *)
ReaderPayloads ==
    {RawPayload(bio, JAbsent(""), JAbsent(""), JVal(<<l>>)) :
        bio \in {JVal("hi"), JVal("yo")},
        l \in {RawLink("Site", "https://a.com", JAbsent(""), JVal(0)),
               RawLink("Blog", "https://b.com", JVal("*"), JVal(3))}}

(* Readers of a profile that is being updated *)
NextReaders ==
    \/ \E r \in Reqs, data \in ProfileSignups : SignupStart(r, data)
    \/ \E r \in Reqs : SignupEmail(r)
    \/ \E r \in Reqs, salt \in Salts : SignupCommit(r, salt)
    \/ \E r \in Reqs, token \in ProfileTokens, raw \in ReaderPayloads :
          UpdateStart(r, token, raw)
    \/ \E r \in Reqs : UpdateDelete(r)
    \/ \E r \in Reqs : UpdateRowLocks(r)
    \/ \E r \in Reqs : UpdateCommit(r)
    \/ \E r \in Reqs : UpdateRefresh(r)
    \/ \E r \in Reqs : UpdateLinks(r)
    \/ \E r \in Reqs : BusyTimeout(r)
    \/ \E r \in Reqs, username \in ProfileNames : ProfileStart(r, username)
    \/ \E r \in Reqs : ProfileLinks(r)
    \/ \E r \in Reqs, token \in ProfileTokens : MeStart(r, token)
    \/ \E r \in Reqs : MeLinks(r)
    \/ \E r \in Reqs : Return(r)

SpecReaders == Init /\ [][NextReaders]_vars

-----------------------------------------------------------------------------
(* Properties *)

Done(r, op) == req[r].op = op /\ req[r].pc = "done"

(* the step is the commit of update r *)
Commits(r) == req[r].pc = "up_commit" /\ req'[r].pc = "up_refresh"

(* C1: when an update whose body has links commits, the public profile of *)
(* its user shows exactly the links of that body, one per entry, with the *)
(* same title, url and icon, in ascending order of order_index.           *)
C1_ReplacesAllLinks ==
    [][\A r \in Reqs :
          (Commits(r) /\ req[r].payload.links.some) =>
             LET ls == req[r].payload.links.v
                 shown == UserPublic(req[r].u, links').links
                 same(l, o) == l.title = o.title /\ l.url = o.url /\ l.icon = o.icon
             IN  /\ Len(shown) = Len(ls)
                 /\ \A i \in DOMAIN ls : \E k \in DOMAIN shown : same(ls[i], shown[k])
                 /\ \A k \in DOMAIN shown : \E i \in DOMAIN ls : same(ls[i], shown[k])
                 /\ \A k \in DOMAIN shown : \A m \in DOMAIN shown :
                       k < m => shown[k].order_index <= shown[m].order_index]_vars

(* what a field of the stored user must be after an update that supplies j *)
FieldWritten(j, after) == j.kind # "absent" => after = OptionalField(j)

(* C2: an update whose body has no links leaves the link rows of its user *)
(* as they are and stores every one of bio, avatar_url and theme_hex that *)
(* the body holds.                                                        *)
C2_AbsentLinksUntouched ==
    [][\A r \in Reqs :
          (Commits(r) /\ req[r].raw.links.kind = "absent") =>
             /\ LinksOf(links', req[r].u.id) = LinksOf(links, req[r].u.id)
             /\ \A row \in users' :
                   row.id = req[r].u.id =>
                      /\ FieldWritten(req[r].raw.bio, row.bio)
                      /\ FieldWritten(req[r].raw.avatar_url, row.avatar_url)
                      /\ FieldWritten(req[r].raw.theme_hex, row.theme_hex)]_vars

(* C3: no two stored users share a username, and no two share an email, *)
(* both compared in lower case.                                         *)
C3_UniqueUsers ==
    \A a \in users : \A b \in users :
        a # b => /\ Lower(a.username) # Lower(b.username)
                 /\ Lower(a.email) # Lower(b.email)

(* two signups of one name passed their lookups before either committed: *)
(* one is stored, the other was refused by the index                     *)
C3_Witness ==
    \E r \in Reqs :
        /\ Done(r, "signup")
        /\ req[r].resp.status = 500
        /\ ~req[r].dup0
        /\ \E u \in users : u.username = Lower(req[r].form.username)

(* C4: a signup whose username or email is, in lower case, that of a user *)
(* stored when the call starts ends with 400 and no token, and none of    *)
(* its steps changes the stored users.                                    *)
C4_DuplicateSignupConflicts ==
    /\ [](\A r \in Reqs :
            (Done(r, "signup") /\ req[r].dup0) =>
               /\ req[r].resp.status = 400
               /\ req[r].resp.token = NoToken)
    /\ [][\A r \in Reqs :
            (req'[r] # req[r] /\ req'[r].op = "signup" /\ req'[r].dup0) =>
               users' = users]_vars

(* a signup in another casing of a stored username was refused *)
C4_Witness ==
    \E r \in Reqs :
        /\ Done(r, "signup")
        /\ req[r].dup0
        /\ req[r].resp.status = 400
        /\ req[r].form.username # Lower(req[r].form.username)

(* C5: a login with the username of a stored user, or with the email in *)
(* any casing, and with that user's password succeeds, and the token's  *)
(* subject is that user's username.                                     *)
C5_OwnerCanLogin ==
    [][\A r \in Reqs :
          (Idle(r) /\ req'[r].op = "login") =>
             \A u \in users :
                ( /\ Lower(req'[r].form.username) \in {u.username, u.email}
                  /\ verify_pw(req'[r].form.password, u.password_hash) ) =>
                   /\ req'[r].resp.status = 200
                   /\ req'[r].resp.token.sub = u.username]_vars

(* the step is the token resolution of a call of GET /api/me by r *)
Resolves(r) == Idle(r) /\ req'[r].op = "me"

(* C6: a protected call resolves to the user the subject names when the   *)
(* token is signed with the server key, has not expired and names a       *)
(* stored user; it ends with 401 and no profile when the token has        *)
(* expired, is signed with another key, or names no stored user.          *)
C6_TokenGate ==
    [][\A r \in Reqs :
          Resolves(r) =>
             LET token == req'[r].token
                 named == {u \in users : u.username = Lower(token.sub)}
                 valid == /\ token.sig = SECRET_KEY
                          /\ now <= token.exp
                          /\ named # {}
             IN  /\ valid => /\ req'[r].pc = "me_links"
                             /\ req'[r].u \in named
                 /\ ~valid => /\ req'[r].pc = "done"
                              /\ req'[r].resp.status = 401
                              /\ req'[r].resp.view = NoView]_vars

(* one token of a stored user was accepted before its expiry and refused *)
(* after it                                                             *)
C6_Witness ==
    \E a \in Reqs : \E b \in Reqs :
        /\ Done(a, "me") /\ Done(b, "me")
        /\ req[a].token = req[b].token
        /\ req[a].token.sig = SECRET_KEY
        /\ req[a].at <= req[a].token.exp /\ req[a].resp.status = 200
        /\ req[b].at > req[b].token.exp /\ req[b].resp.status = 401

LoginFailed(r) == Done(r, "login") /\ req[r].resp.status # 200

(* C7: every failed login ends with 401 and no token, any two failed    *)
(* logins get the same response, and a login changes no stored row.     *)
C7_UniformLoginFailure ==
    /\ [](\A a \in Reqs : \A b \in Reqs :
            (LoginFailed(a) /\ LoginFailed(b)) =>
               /\ req[a].resp.status = 401
               /\ req[a].resp.token = NoToken
               /\ req[a].resp = req[b].resp)
    /\ [][\A r \in Reqs :
            (req'[r] # req[r] /\ req'[r].op = "login") =>
               users' = users /\ links' = links]_vars

(* a login with an unknown identifier and a login with a known one and a *)
(* wrong password have both failed                                       *)
C7_Witness ==
    \E a \in Reqs : \E b \in Reqs :
        /\ LoginFailed(a) /\ LoginFailed(b)
        /\ LoginMatches(req[a].form.username) = {}
        /\ req[b].u # NoUser
        /\ ~verify_pw(req[b].form.password, req[b].u.password_hash)

(* the order_index the body supplies for its i-th link, 0 when it has none *)
Supplied(r, i) ==
    LET j == req[r].raw.links.v[i].order_index
    IN  IF j.kind = "value" THEN j.v ELSE 0

(* the row an update stores for the i-th link of its body *)
StoredAt(r, i, order_index) ==
    \E l \in links' \ links :
        /\ l.id = nextLinkId + i - 1
        /\ l.user_id = req[r].u.id
        /\ l.title = req[r].payload.links.v[i].title
        /\ l.order_index = order_index

(* C8, as stated: the i-th link (from 0) is stored with order_index i    *)
(* unless a positive order_index was supplied, which is then stored.     *)
C8_PositiveOrderIndexKept ==
    [][\A r \in Reqs :
          (Commits(r) /\ req[r].payload.links.some) =>
             \A i \in DOMAIN req[r].payload.links.v :
                StoredAt(r, i, IF Supplied(r, i) > 0 THEN Supplied(r, i) ELSE i - 1)]_vars

(* C8, amended: the i-th link (from 0) is stored with order_index i      *)
(* unless a nonzero order_index, positive or negative, was supplied,     *)
(* which is then stored.                                                 *)
C8_NonzeroOrderIndexKept ==
    [][\A r \in Reqs :
          (Commits(r) /\ req[r].payload.links.some) =>
             \A i \in DOMAIN req[r].payload.links.v :
                StoredAt(r, i, IF Supplied(r, i) # 0 THEN Supplied(r, i) ELSE i - 1)]_vars

(* a body <<Shop (-1), Site (0)>> is stored: -1 is kept at position 0 and *)
(* the 0 at position 1 became 1                                           *)
C8_Witness ==
    \E a \in links : \E b \in links :
        /\ a.title = "Shop" /\ a.order_index = -1
        /\ b.title = "Site" /\ b.order_index = 1
        /\ b.id = a.id + 1
        /\ a.user_id = b.user_id

(* C9: the profile a read returns is one committed state of the profile: *)
(* the state when the read began or one committed while it ran.  So it   *)
(* holds all of an update or none of it, and it has no links only if a   *)
(* committed state had none.                                             *)
C9_ReadsAreAtomic ==
    \A r \in Reqs :
        ((Done(r, "me") \/ Done(r, "profile")) /\ req[r].resp.status = 200) =>
           /\ req[r].resp.view \in req[r].seen
           /\ req[r].resp.view.links = <<>> =>
                 \E v \in req[r].seen : v.links = <<>>

(* the part of C9 about empty link lists alone *)
ReadsNeverInventEmptyLinks ==
    \A r \in Reqs :
        ((Done(r, "me") \/ Done(r, "profile")) /\ req[r].resp.status = 200) =>
           (req[r].resp.view.links = <<>> =>
               \E v \in req[r].seen : v.links = <<>>)

(* what a field of the stored user must be after an update whose body *)
(* holds j for it                                                     *)
FieldRule(j, before, after) ==
    IF j.kind = "absent" THEN after = before ELSE after = OptionalField(j)

(* C10: an update stores each of bio, avatar_url and theme_hex that its  *)
(* body holds, a null and an empty string included, and leaves the       *)
(* stored value of a field the body does not hold.                       *)
C10_PresentFieldsOverwrite ==
    [][\A r \in Reqs :
          Commits(r) =>
             \A before \in users : \A after \in users' :
                (before.id = req[r].u.id /\ after.id = req[r].u.id) =>
                   /\ FieldRule(req[r].raw.bio, before.bio, after.bio)
                   /\ FieldRule(req[r].raw.avatar_url, before.avatar_url,
                                after.avatar_url)
                   /\ FieldRule(req[r].raw.theme_hex, before.theme_hex,
                                after.theme_hex)]_vars

====
